---- MODULE Spec2Model ----
(***************************************************************************)
(* Model of quoted_string/mime.rs: the MIME quoting classifiers, the bare   *)
(* token validator and the four ParsingImpl profiles generated by           *)
(* def_mime_parsing!.  The lookup table MediaTypeChars, the default         *)
(* MimeParsingExt::handle_normal_state and FWSState live in sibling modules *)
(* of the crate; they are modelled from the written specification.          *)
(***************************************************************************)
EXTENDS Integers, Sequences, FiniteSets, TLC

VARIABLES fn, target, pcp, cls, flag, nfed, rejected, prev, state, res, nunits

vars == <<fn, target, pcp, cls, flag, nfed, rejected, prev, state, res, nunits>>

(* Bounds of the exploration *)
MaxFed == 3
MaxUnits == 4

(* A PartialCodePoint is handed around as its u8 value *)
PartialCodePoint == 0..255

(***************************************************************************)
(* lookup_tables: MediaTypeChars and its flags                              *)
(***************************************************************************)
Token == {"Token"}
QText == {"QText"}
QTextWs == {"QTextWs"}
DQuoteOrEscape == {"DQuoteOrEscape"}
Ws == {"Ws"}

(* tspecials of RFC 2045:  ( ) < > @ , ; : \ " / [ ] ? =  *)
Tspecials == {40, 41, 60, 62, 64, 44, 59, 58, 92, 34, 47, 91, 93, 63, 61}

category_of(v) ==
    LET isws == v \in {9, 32}
        isdqe == v \in {34, 92}
        isqtext == v >= 33 /\ v <= 126 /\ ~isdqe
        istoken == v >= 33 /\ v <= 126 /\ v \notin Tspecials
    IN  (IF isws THEN Ws ELSE {})
        \cup (IF isdqe THEN DQuoteOrEscape ELSE {})
        \cup (IF isqtext THEN QText ELSE {})
        \cup (IF isqtext \/ isws THEN QTextWs ELSE {})
        \cup (IF istoken THEN Token ELSE {})

(* lut::Any: the union of flags, matched when any one of them is set *)
Any_of(a, b, c) == a \cup b \cup c

MediaTypeChars_check_at(idx, flags) == category_of(idx) \cap flags # {}

(***************************************************************************)
(* MimeTokenValidator                                                       *)
(***************************************************************************)
MimeTokenValidator_new == "MimeTokenValidator"

MimeTokenValidator_next_anyQText(self, p) == MediaTypeChars_check_at(p, QText)
MimeTokenValidator_next(self, p) == MediaTypeChars_check_at(p, Token)

MimeTokenValidator_end(self) == TRUE

(***************************************************************************)
(* Quoting classifiers                                                      *)
(***************************************************************************)
QuotingClass == {"QText", "NeedsQuoting", "Invalid"}

MimeObsQuoting_classify_noInvalid(p) ==
    IF MediaTypeChars_check_at(p, QTextWs) THEN "QText" ELSE "NeedsQuoting"
MimeObsQuoting_classify_for_quoting(p) ==
    LET iu8 == p
    IN  IF MediaTypeChars_check_at(iu8, QTextWs) THEN "QText"
        ELSE IF iu8 <= 127 THEN "NeedsQuoting"
        ELSE "Invalid"

MimeObsUtf8Quoting_classify_onlyNonAscii(p) ==
    IF p > 127 THEN "QText" ELSE "NeedsQuoting"
MimeObsUtf8Quoting_classify_for_quoting(p) ==
    LET iu8 == p
    IN  IF iu8 > 127 \/ MediaTypeChars_check_at(iu8, QTextWs) THEN "QText"
        ELSE "NeedsQuoting"

(***************************************************************************)
(* def_mime_parsing!: the four profiles                                     *)
(***************************************************************************)
Profiles == {"MimeObsParsing", "MimeObsParsingUtf8", "MimeParsing", "MimeParsingUtf8"}

ALLOW_UTF8_always(name) == TRUE
ALLOW_UTF8(name) == name \in {"MimeObsParsingUtf8", "MimeParsingUtf8"}

OBS(name) == name \in {"MimeObsParsing", "MimeObsParsingUtf8"}

MimeObsParsing_can_be_quoted_modern(bch) ==
    MediaTypeChars_check_at(bch, Any_of(Ws, QText, DQuoteOrEscape))
MimeObsParsing_can_be_quoted(bch) == bch <= 127

MimeObsParsingUtf8_can_be_quoted(bch) == bch <= 127

MimeParsing_can_be_quoted_noDQuote(bch) ==
    MediaTypeChars_check_at(bch, Any_of(Ws, QText, {}))
MimeParsing_can_be_quoted(bch) ==
    LET idx == bch
    IN  MediaTypeChars_check_at(idx, Any_of(Ws, QText, DQuoteOrEscape))

MimeParsingUtf8_can_be_quoted_widened(bch) ==
    bch > 127 \/ MediaTypeChars_check_at(bch, Any_of(Ws, QText, DQuoteOrEscape))
MimeParsingUtf8_can_be_quoted(bch) ==
    LET idx == bch
    IN  MediaTypeChars_check_at(idx, Any_of(Ws, QText, DQuoteOrEscape))

can_be_quoted(name, bch) ==
    CASE name = "MimeObsParsing" -> MimeObsParsing_can_be_quoted(bch)
      [] name = "MimeObsParsingUtf8" -> MimeObsParsingUtf8_can_be_quoted(bch)
      [] name = "MimeParsing" -> MimeParsing_can_be_quoted(bch)
      [] name = "MimeParsingUtf8" -> MimeParsingUtf8_can_be_quoted(bch)

(* The classifier used around a profile is picked by ALLOW_UTF8 alone *)
classifier_of(name) ==
    IF ALLOW_UTF8(name) THEN "MimeObsUtf8Quoting" ELSE "MimeObsQuoting"

classify_for_quoting(q, p) ==
    IF q = "MimeObsQuoting" THEN MimeObsQuoting_classify_for_quoting(p)
    ELSE MimeObsUtf8Quoting_classify_for_quoting(p)

(***************************************************************************)
(* Parser states and results                                                *)
(***************************************************************************)
FWSStates == {"InWs", "HitCr", "HitNl"}

Normal == [kind |-> "Normal", impl |-> "none", fws |-> "none"]
Failed == [kind |-> "Failed", impl |-> "none", fws |-> "none"]
NoState == [kind |-> "none", impl |-> "none", fws |-> "none"]
NoResult == [ok |-> FALSE, state |-> NoState, emit |-> FALSE, err |-> "none"]

Ok(pair) == [ok |-> TRUE, state |-> pair[1], emit |-> pair[2], err |-> "none"]
Err(e) == [ok |-> FALSE, state |-> NoState, emit |-> FALSE, err |-> e]

custom_state_drops_fold(name, fwsstate, emit) == <<Normal, emit>>
custom_state(name, fwsstate, emit) ==
    <<[kind |-> "Custom", impl |-> name, fws |-> fwsstate], emit>>

(* MimeParsingExt::handle_normal_state, the handler shared by all profiles *)
MimeParsingExt_handle_normal_state(name, bch) ==
    IF MediaTypeChars_check_at(bch, Ws) THEN Ok(custom_state(name, "InWs", TRUE))
    ELSE IF bch = 13 THEN Ok(custom_state(name, "HitCr", FALSE))
    ELSE IF MediaTypeChars_check_at(bch, QText) \/ (ALLOW_UTF8(name) /\ bch > 127)
         THEN Ok(<<Normal, TRUE>>)
    ELSE Err("InvalidChar")

(* FWSState::advance, the folding white space automaton *)
FWSState_advance(name, fwsstate, bch) ==
    CASE fwsstate = "InWs" ->
            IF MediaTypeChars_check_at(bch, Ws) THEN Ok(custom_state(name, "InWs", TRUE))
            ELSE MimeParsingExt_handle_normal_state(name, bch)
      [] fwsstate = "HitCr" ->
            IF bch = 10 THEN Ok(custom_state(name, "HitNl", FALSE))
            ELSE Err("MalformedFold")
      [] fwsstate = "HitNl" ->
            IF MediaTypeChars_check_at(bch, Ws) THEN Ok(custom_state(name, "InWs", TRUE))
            ELSE Err("MalformedFold")

ParsingImpl_handle_normal_state(name, bch) ==
    MimeParsingExt_handle_normal_state(name, bch)

ParsingImpl_advance_as_normal(self, bch) ==
    MimeParsingExt_handle_normal_state(self.impl, bch)
ParsingImpl_advance(self, bch) == FWSState_advance(self.impl, self.fws, bch)

(***************************************************************************)
(* Initial state                                                            *)
(***************************************************************************)
Init ==
    /\ fn = "none"
    /\ target = "none"
    /\ pcp = 0
    /\ cls = "none"
    /\ flag = FALSE
    /\ nfed = 0
    /\ rejected = FALSE
    /\ prev = NoState
    /\ state = NoState
    /\ res = NoResult
    /\ nunits = 0

(***************************************************************************)
(* Calls of the stateless classifiers and predicates                        *)
(***************************************************************************)
ClassifyForQuoting(q, p) ==
    /\ fn' = "classify_for_quoting"
    /\ target' = q
    /\ pcp' = p
    /\ cls' = classify_for_quoting(q, p)
    /\ UNCHANGED <<flag, nfed, rejected, prev, state, res, nunits>>

CanBeQuoted(name, p) ==
    /\ fn' = "can_be_quoted"
    /\ target' = name
    /\ pcp' = p
    /\ flag' = can_be_quoted(name, p)
    /\ cls' = "none"
    /\ UNCHANGED <<nfed, rejected, prev, state, res, nunits>>

(* A writer quoting one unit for a profile: classify, then ask the profile *)
(* whether the unit may follow the escape marker                           *)
QuoteUnit(name, p) ==
    /\ fn' = "quote_unit"
    /\ target' = name
    /\ pcp' = p
    /\ cls' = classify_for_quoting(classifier_of(name), p)
    /\ flag' = can_be_quoted(name, p)
    /\ UNCHANGED <<nfed, rejected, prev, state, res, nunits>>

NextQuoting ==
    \/ \E q \in {"MimeObsQuoting", "MimeObsUtf8Quoting"}, p \in PartialCodePoint :
          ClassifyForQuoting(q, p)
    \/ \E name \in Profiles, p \in PartialCodePoint : CanBeQuoted(name, p)
    \/ \E name \in Profiles, p \in PartialCodePoint : QuoteUnit(name, p)

SpecQuoting == Init /\ [][NextQuoting]_vars

(***************************************************************************)
(* A caller driving one MimeTokenValidator                                  *)
(***************************************************************************)
ValidatorNew ==
    /\ fn' = "new"
    /\ target' = MimeTokenValidator_new
    /\ nfed' = 0
    /\ rejected' = FALSE
    /\ flag' = FALSE
    /\ UNCHANGED <<pcp, cls, prev, state, res, nunits>>

ValidatorNext(p) ==
    /\ target = "MimeTokenValidator"
    /\ nfed < MaxFed
    /\ fn' = "next"
    /\ pcp' = p
    /\ flag' = MimeTokenValidator_next(target, p)
    /\ nfed' = nfed + 1
    /\ rejected' = (rejected \/ ~flag')
    /\ UNCHANGED <<target, cls, prev, state, res, nunits>>

ValidatorEnd ==
    /\ target = "MimeTokenValidator"
    /\ fn' = "end"
    /\ flag' = MimeTokenValidator_end(target)
    /\ UNCHANGED <<target, pcp, cls, nfed, rejected, prev, state, res, nunits>>

NextValidator ==
    \/ ValidatorNew
    \/ \E p \in PartialCodePoint : ValidatorNext(p)
    \/ ValidatorEnd

SpecValidator == Init /\ [][NextValidator]_vars

(***************************************************************************)
(* A parser driving one profile, one unit at a time                         *)
(***************************************************************************)
ParseStart(name) ==
    /\ fn' = "start"
    /\ target' = name
    /\ prev' = NoState
    /\ state' = Normal
    /\ res' = NoResult
    /\ nunits' = 0
    /\ UNCHANGED <<pcp, cls, flag, nfed, rejected>>

Settle(r) == IF r.ok THEN r.state ELSE Failed

HandleNormalState(p) ==
    /\ state.kind = "Normal"
    /\ nunits < MaxUnits
    /\ fn' = "handle_normal_state"
    /\ pcp' = p
    /\ res' = ParsingImpl_handle_normal_state(target, p)
    /\ prev' = state
    /\ state' = Settle(res')
    /\ nunits' = nunits + 1
    /\ UNCHANGED <<target, cls, flag, nfed, rejected>>

Advance(p) ==
    /\ state.kind = "Custom"
    /\ nunits < MaxUnits
    /\ fn' = "advance"
    /\ pcp' = p
    /\ res' = ParsingImpl_advance(state, p)
    /\ prev' = state
    /\ state' = Settle(res')
    /\ nunits' = nunits + 1
    /\ UNCHANGED <<target, cls, flag, nfed, rejected>>

NextParsing ==
    \/ \E name \in Profiles : ParseStart(name)
    \/ \E p \in PartialCodePoint : HandleNormalState(p)
    \/ \E p \in PartialCodePoint : Advance(p)

SpecParsing == Init /\ [][NextParsing]_vars

(***************************************************************************)
(* Properties                                                               *)
(***************************************************************************)
ObsProfiles == {"MimeObsParsing", "MimeObsParsingUtf8"}
ModernProfiles == {"MimeParsing", "MimeParsingUtf8"}

(* restrictiveness of a quoting class: QText < NeedsQuoting < Invalid *)
Rank(c) == CASE c = "QText" -> 0 [] c = "NeedsQuoting" -> 1 [] c = "Invalid" -> 2

(* C1: whenever MimeObsQuoting classifies a unit, the answer is one of the  *)
(* three classes: QText if the unit is in QTextWs, otherwise NeedsQuoting   *)
(* if it is at most 0x7F, otherwise Invalid.                                *)
C1_RestrictedClassifier ==
    (fn = "classify_for_quoting" /\ target = "MimeObsQuoting") =>
        /\ cls \in QuotingClass
        /\ ("QTextWs" \in category_of(pcp) => cls = "QText")
        /\ ("QTextWs" \notin category_of(pcp) /\ pcp <= 127 => cls = "NeedsQuoting")
        /\ ("QTextWs" \notin category_of(pcp) /\ pcp > 127 => cls = "Invalid")

C1_Witness ==
    /\ fn = "classify_for_quoting"
    /\ target = "MimeObsQuoting"
    /\ pcp = 195
    /\ cls = "Invalid"

(* C2: whenever MimeObsUtf8Quoting classifies a unit, the answer is QText   *)
(* if the unit is above 0x7F or in QTextWs and NeedsQuoting otherwise; it   *)
(* is never Invalid.                                                        *)
C2_ExtendedClassifier ==
    (fn = "classify_for_quoting" /\ target = "MimeObsUtf8Quoting") =>
        /\ cls # "Invalid"
        /\ (pcp > 127 \/ "QTextWs" \in category_of(pcp) => cls = "QText")
        /\ (pcp <= 127 /\ "QTextWs" \notin category_of(pcp) => cls = "NeedsQuoting")

C2_Witness ==
    /\ fn = "classify_for_quoting"
    /\ target = "MimeObsUtf8Quoting"
    /\ pcp = 195
    /\ cls = "QText"

(* C3: on every unit that MimeObsQuoting classifies as QText or             *)
(* NeedsQuoting, the class returned by MimeObsUtf8Quoting is not Invalid    *)
(* and is at most as restrictive as the MimeObsQuoting class.               *)
C3_MonotonicWidening ==
    (fn = "classify_for_quoting" /\ target = "MimeObsUtf8Quoting") =>
        LET restricted == MimeObsQuoting_classify_for_quoting(pcp)
        IN  restricted \in {"QText", "NeedsQuoting"} =>
                /\ cls # "Invalid"
                /\ Rank(cls) <= Rank(restricted)

C3_Witness ==
    /\ fn = "classify_for_quoting"
    /\ target = "MimeObsUtf8Quoting"
    /\ pcp = 65
    /\ cls = "QText"
    /\ MimeObsQuoting_classify_for_quoting(pcp) = "QText"

(* C4: can_be_quoted of the two obsolete profiles is exactly "at most       *)
(* 0x7F"; can_be_quoted of the two modern profiles is exactly "the category *)
(* set holds one of Ws, QText, DQuoteOrEscape".                             *)
C4_ProfilePredicates ==
    fn = "can_be_quoted" =>
        /\ (target \in ObsProfiles => flag = (pcp <= 127))
        /\ (target \in ModernProfiles =>
                flag = (category_of(pcp) \cap {"Ws", "QText", "DQuoteOrEscape"} # {}))

C4_Witness ==
    /\ fn = "can_be_quoted"
    /\ target = "MimeParsing"
    /\ pcp = 34
    /\ flag = TRUE

(* C5: whatever was fed before, next(v) answers true exactly when v is a    *)
(* Token character, and end() answers true.                                 *)
C5_TokenValidator ==
    /\ (fn = "next" => flag = ("Token" \in category_of(pcp)))
    /\ (fn = "end" => flag = TRUE)

C5_Witness ==
    /\ fn = "next"
    /\ nfed >= 2
    /\ rejected
    /\ flag = TRUE

(* C6: a unit above 0x7F handled in the Normal state is an InvalidChar      *)
(* error without a next state under MimeObsParsing and MimeParsing, and is  *)
(* emitted with the state staying Normal under the two Utf8 profiles.       *)
C6_NonAsciiInNormal ==
    (fn = "handle_normal_state" /\ pcp > 127) =>
        /\ (target \in {"MimeObsParsing", "MimeParsing"} =>
                /\ ~res.ok
                /\ res.err = "InvalidChar"
                /\ res.state = NoState
                /\ ~res.emit
                /\ state = Failed)
        /\ (target \in {"MimeObsParsingUtf8", "MimeParsingUtf8"} =>
                /\ res.ok
                /\ res.emit
                /\ res.state = Normal
                /\ state = Normal)

C6_Witness ==
    /\ fn = "handle_normal_state"
    /\ target = "MimeParsing"
    /\ pcp = 195
    /\ res.err = "InvalidChar"

(* C7: a tab handled in the Normal state succeeds and leaves the parser in  *)
(* State::Custom of the profile, carrying a folding sub-state; a unit that  *)
(* arrives in State::Custom is answered by FWSState::advance on the carried *)
(* sub-state.                                                               *)
C7_TabEntersFolding ==
    /\ (fn = "handle_normal_state" /\ pcp = 9) =>
            /\ prev = Normal
            /\ res.ok
            /\ res.state.kind = "Custom"
            /\ res.state.impl = target
            /\ res.state.fws \in FWSStates
            /\ state = res.state
    /\ (prev.kind = "Custom") =>
            /\ fn = "advance"
            /\ res = FWSState_advance(prev.impl, prev.fws, pcp)

C7_Witness ==
    /\ fn = "advance"
    /\ prev.kind = "Custom"
    /\ prev.fws = "HitCr"
    /\ pcp = 65
    /\ res.err = "MalformedFold"
    /\ res # MimeParsingExt_handle_normal_state(target, pcp)

(* C8: each Utf8 profile answers can_be_quoted as its US-ASCII counterpart  *)
(* does, and no profile answers true for a unit above 0x7F.                 *)
C8_NeverWidened ==
    fn = "can_be_quoted" =>
        /\ (target = "MimeObsParsingUtf8" => flag = MimeObsParsing_can_be_quoted(pcp))
        /\ (target = "MimeParsingUtf8" => flag = MimeParsing_can_be_quoted(pcp))
        /\ (pcp > 127 => flag = FALSE)

C8_Witness ==
    /\ fn = "can_be_quoted"
    /\ target = "MimeParsingUtf8"
    /\ pcp = 195
    /\ flag = FALSE

(* C10 as stated: under every profile, a unit that the classifier picked by *)
(* ALLOW_UTF8 calls NeedsQuoting can be quoted by the profile.              *)
C10_Original ==
    (fn = "quote_unit" /\ cls = "NeedsQuoting") => flag = TRUE

(* C10: under the two obsolete profiles, a unit that the classifier picked  *)
(* by ALLOW_UTF8 calls NeedsQuoting can be quoted by the profile; under the *)
(* two modern profiles such a unit can be quoted exactly when it is the     *)
(* double quote or the backslash.                                           *)
C10_ObsAgreement ==
    (fn = "quote_unit" /\ cls = "NeedsQuoting") =>
        /\ (target \in ObsProfiles => flag = TRUE)
        /\ (target \in ModernProfiles => flag = (pcp \in {34, 92}))

C10_Witness ==
    /\ fn = "quote_unit"
    /\ target = "MimeObsParsing"
    /\ pcp = 0
    /\ cls = "NeedsQuoting"
    /\ flag = TRUE

====
